---- MODULE Spec2Model ----
(***************************************************************************)
(* A model of mavgen's flattener (src/mavgen/src/flatten.rs) and of the    *)
(* pure parsers and derived properties of its semantic model               *)
(* (src/mavgen/src/model.rs).                                              *)
(*                                                                         *)
(* flatten() is modelled as a state machine: the call stack of             *)
(* flatten_recursive is the variable `stack`, one frame per activation,    *)
(* and every loop iteration of the function is one action.                 *)
(***************************************************************************)
EXTENDS Integers, Sequences, FiniteSets, TLC

VARIABLES
    files,      \* &HashMap<PathBuf, parser::MavlinkFile>: the resolved map
    normalised, \* the entry path handed to flatten
    pc,         \* where the current flatten call is
    stack,      \* activations of flatten_recursive, innermost last
    collector,  \* MessageAndEnumCollector of the current call
    result,     \* what flatten returned: None, or Some(Ok(module))
    run,        \* 1 for the first call of flatten on this input, 2 for the second
    first,      \* the hasher key and the result of the first call, once it returned
    ident_in,   \* the argument of Ident::from_str
    ident_out,  \* its result
    enum_in,    \* the entry values of the Enum min_rust_size is called on
    size_out,   \* its result
    type_in,    \* the argument of FieldType::from_str
    type_out,   \* its result
    cli_args,   \* what main finds out about its arguments
    cli_result, \* what generate_one or generate_dir returned to main
    cli_pc,     \* where main is, and the position of its loop over the errors
    stderr,     \* the lines written to standard error so far
    exit,       \* what main returned: None while it runs
    status      \* the exit status of the process: None while it runs

vars == <<files, normalised, pc, stack, collector, result, run, first,
          ident_in, ident_out, enum_in, size_out, type_in, type_out,
          cli_args, cli_result, cli_pc, stderr, exit, status>>

flattenVars == <<files, normalised, pc, stack, collector, result, run, first>>
identVars == <<ident_in, ident_out>>
sizeVars == <<enum_in, size_out>>
typeVars == <<type_in, type_out>>
cliVars == <<cli_args, cli_result, cli_pc, stderr, exit, status>>

(***************************************************************************)
(* Bounds of the model.                                                    *)
(***************************************************************************)
\* Largest number of <include> lines in the whole map.
MaxEdges == 3
\* Depth of the call stack at which a further call overflows it.
MaxDepth == 4

(***************************************************************************)
(* Option<T>: None is the empty sequence, Some(v) the one-element one.     *)
(***************************************************************************)
None == <<>>
Some(v) == <<v>>
IsSome(o) == o # None
Unwrap(o) == o[1]

(***************************************************************************)
(* u64 values are kept as four 16-bit limbs, most significant first: the   *)
(* boundaries of min_rust_size lie beyond the model checker's integers.    *)
(***************************************************************************)
U8Max == 255
U16Max == 65535
\* u64::from of a value below 2^16
U64From(n) == <<0, 0, 0, n>>
U32MaxAsU64 == <<0, 0, U16Max, U16Max>>
U64MaxValue == <<U16Max, U16Max, U16Max, U16Max>>

(***************************************************************************)
(* The files of the map are the three of tests::test_chain, with the cases *)
(* added that the test has not: a file without version, one without        *)
(* dialect, an enum name used twice in one file, an enum without entries,  *)
(* two messages of the same name and id.  MissingPath is a path that is no *)
(* key of the map.                                                         *)
(***************************************************************************)
PathSeq == << "test-1.xml", "test-2.xml", "test-3.xml" >>
Paths == { PathSeq[i] : i \in DOMAIN PathSeq }
MissingPath == "test-4.xml"

XmlEntry(name, value) == [name |-> name, value |-> value]
XmlEnum(name, bitmask, description, entries) ==
    [name |-> name, bitmask |-> bitmask, description |-> description,
     dev_status |-> None, entries |-> entries]
XmlMessage(name, id, description) ==
    [name |-> name, id |-> id, description |-> description]
Mavlink(version, dialect, enums, messages) ==
    [version |-> version, dialect |-> dialect, enums |-> enums, messages |-> messages]

Declarations(p) ==
    CASE p = "test-1.xml" ->
           Mavlink(Some(2), Some(1),
              Some(<< XmlEnum("ICAROUS_TRACK_BAND_TYPES", None, None,
                        << XmlEntry("ICAROUS_TRACK_BAND_TYPE_NONE", U64From(0)),
                           XmlEntry("ICAROUS_TRACK_BAND_TYPE_NEAR", U64From(1)) >>),
                      XmlEnum("MAV_CMD", None, Some("from test-1"),
                        << XmlEntry("MAV_CMD_DO_AUX_FUNCTION", U64From(218)) >>) >>),
              Some(<< XmlMessage("SET_MAG_OFFSETS", 151, Some("Set the magnetometer offsets")) >>))
      [] p = "test-2.xml" ->
           Mavlink(None, Some(3),
              Some(<< XmlEnum("MAV_CMD", None, Some("from test-2"),
                        << XmlEntry("MAV_CMD_NAV_FENCE_POLYGON_VERTEX_INCLUSION", U64From(40001)) >>),
                      XmlEnum("MAV_CMD", Some(TRUE), None,
                        << XmlEntry("MAV_CMD_USER_1", <<0, 1, 0, 0>>) >>) >>),
              Some(<< XmlMessage("SYSTEM_TIME", 2, None) >>))
      [] OTHER ->
           Mavlink(Some(5), None,
              Some(<< [XmlEnum("MAV_CMD", Some(FALSE), None,
                         << XmlEntry("MAV_CMD_RESET_MPPT", U64From(40001)),
                            XmlEntry("MAV_CMD_USER_1", U64From(40002)) >>)
                         EXCEPT !.dev_status = Some("wip")],
                      XmlEnum("GSM_MODEM_TYPE", None, None, << >>) >>),
              Some(<< XmlMessage("COMMAND_INT_STAMPED", 223, None),
                      XmlMessage("SYSTEM_TIME", 2, Some("from test-3")) >>))

\* parser::MavlinkFile
MavlinkFile(p, includes) == [mavlink |-> Declarations(p), normalised_includes |-> includes]

(***************************************************************************)
(* The include tables of the model: every assignment of include lists to   *)
(* the files, over the keys of the map and the missing path, with no more  *)
(* than MaxEdges includes in all.                                          *)
(***************************************************************************)
IncludeLists(e) == UNION { [1..k -> Paths \cup {MissingPath}] : k \in 0..e }

RECURSIVE IncludeTables(_, _)
IncludeTables(n, e) ==
    IF n = 0 THEN { << >> }
    ELSE UNION { { Append(t, l) : t \in IncludeTables(n - 1, e - Len(l)) } :
                 l \in IncludeLists(e) }

FileMaps ==
    { [p \in Paths |-> MavlinkFile(p, t[CHOOSE i \in DOMAIN PathSeq : PathSeq[i] = p])] :
      t \in IncludeTables(Len(PathSeq), MaxEdges) }

\* The keys the RandomState of a HashMap can take.
Seeds == {"k0", "k1"}

(***************************************************************************)
(* HashMap operations used by the flattener.  A map is a function on its   *)
(* keys; enum_index also carries the key of its RandomState, which fixes   *)
(* the order an iteration over it would take.                              *)
(***************************************************************************)
\* HashMap::get
MapGet(map, key) == IF key \in DOMAIN map THEN Some(map[key]) ELSE None

\* HashMap::insert
MapInsert(map, key, value) == [k \in DOMAIN map \cup {key} |-> IF k = key THEN value ELSE map[k]]

EmptyMap == [k \in {} |-> 0]

\* collector.enum_index.get(enum_.name.as_str())
IndexGet(c, name) == MapGet(c.enum_index.table, name)

\* Vec::extend_from_slice
ExtendFromSlice(vec, slice) == vec \o slice

\* MessageAndEnumCollector::default(), its HashMap hashing with key `seed`
DefaultCollector(seed) ==
    [messages |-> << >>, enums |-> << >>,
     enum_index |-> [seed |-> seed, table |-> EmptyMap]]

\* One activation of flatten_recursive on the file at `path`: `at` is the loop
\* it is in, `next` the position of that loop's iterator.
Frame(path) == [module |-> path, at |-> "includes", next |-> 1]

Top == stack[Len(stack)]
TopFile == files[Top.module]
SetTop(frame) == [stack EXCEPT ![Len(stack)] = frame]
Pop == SubSeq(stack, 1, Len(stack) - 1)

\* The enums of a file as the loop `for enum_ in &enums.0` sees them: none when
\* module.mavlink.enums is None.
EnumsOf(file) == IF IsSome(file.mavlink.enums) THEN Unwrap(file.mavlink.enums) ELSE << >>

\* Faulty variant of CollectMessages, against which C3 is checked: a message is
\* left out when one of its name is collected already.
CollectMessagesOncePerName(c, file) ==
    LET own == IF IsSome(file.mavlink.messages) THEN Unwrap(file.mavlink.messages) ELSE << >>
        known == { c.messages[i].name : i \in DOMAIN c.messages }
    IN  [c EXCEPT !.messages = @ \o SelectSeq(own, LAMBDA m : m.name \notin known)]

\* collector.messages after `if let Some(messages) = ... extend_from_slice`
CollectMessages(c, file) ==
    IF IsSome(file.mavlink.messages)
    THEN [c EXCEPT !.messages = ExtendFromSlice(@, Unwrap(file.mavlink.messages))]
    ELSE c

\* Faulty variant of MergeEnum, against which C2 is checked: the later entries
\* are put before the placed ones.
MergeEnumInFront(c, idx, enum_) ==
    [c EXCEPT !.enums[idx].entries = ExtendFromSlice(enum_.entries, @)]

\* Faulty variant of MergeEnum, against which C20 is checked: an entry whose
\* value the placed enum already has is left out.
MergeEnumDistinctValues(c, idx, enum_) ==
    [c EXCEPT !.enums[idx].entries =
        ExtendFromSlice(@, SelectSeq(enum_.entries,
                                     LAMBDA e : \A i \in DOMAIN c.enums[idx].entries :
                                                   c.enums[idx].entries[i].value # e.value))]

\* Faulty variant of MergeEnum, against which C19 is checked: the placed enum
\* takes the bitmask flag, description and dev_status of the later occurrence.
MergeEnumTakingFlags(c, idx, enum_) ==
    [c EXCEPT !.enums[idx] = [enum_ EXCEPT !.entries = ExtendFromSlice(c.enums[idx].entries, @)]]

\* Faulty variant of MergeEnum, against which C17 is checked: the entries of
\* the later occurrence take the place of the placed ones.
MergeEnumReplacing(c, idx, enum_) ==
    [c EXCEPT !.enums[idx].entries = enum_.entries]

\* The branch taken when the name is in the index.
MergeEnum(c, idx, enum_) ==
    [c EXCEPT !.enums[idx].entries = ExtendFromSlice(@, enum_.entries)]

\* Faulty variant of PushEnum, against which C18 is checked: the enum is
\* placed, its name is not entered in the index.
PushEnumUnindexed(c, enum_) == [c EXCEPT !.enums = Append(@, enum_)]

\* The branch taken when it is not.
PushEnum(c, enum_) ==
    LET idx == Len(c.enums) + 1
    IN  [c EXCEPT !.enums = Append(@, enum_),
                  !.enum_index.table = MapInsert(@, enum_.name, idx)]

\* One iteration of `for enum_ in &enums.0`
CollectEnum(c, enum_) ==
    LET found == IndexGet(c, enum_.name)
    IN  IF IsSome(found) THEN MergeEnum(c, Unwrap(found), enum_) ELSE PushEnum(c, enum_)

RECURSIVE Reverse(_)
Reverse(seq) == IF seq = << >> THEN << >> ELSE Append(Reverse(Tail(seq)), Head(seq))

\* Faulty variant of ModuleEnums, against which C6 is checked: the enums are
\* collected by iterating over enum_index, in the order its hasher gives.
ModuleEnumsInIndexOrder(c) ==
    IF c.enum_index.seed = "k0" THEN c.enums ELSE Reverse(c.enums)

\* Faulty variant of ModuleEnums, against which C5 is checked: enums without
\* entries are left out of the module.
ModuleEnumsWithEntries(c) == SelectSeq(c.enums, LAMBDA e : e.entries # << >>)

\* Faulty variant of ModuleVersion, against which C4 is checked: a version
\* declared by the last include overrides the entry's.
ModuleVersionOfInclude(module) ==
    LET includes == module.normalised_includes
    IN  IF includes # << >> /\ IsSome(files[includes[Len(includes)]].mavlink.version)
        THEN files[includes[Len(includes)]].mavlink.version
        ELSE module.mavlink.version

\* The MavlinkModule flatten builds from the entry file and the collector.
ModuleEnums(c) == c.enums
ModuleMessages(c) == c.messages
ModuleVersion(module) == module.mavlink.version
ModuleDialect(module) == module.mavlink.dialect

MavlinkModule(path, module, c) ==
    [path |-> path,
     version |-> ModuleVersion(module),
     dialect |-> ModuleDialect(module),
     enums |-> ModuleEnums(c),
     messages |-> ModuleMessages(c)]

\* Faulty variant of FlattenOk, against which C8 is checked: two messages of one
\* id are reported as an error to the caller.
FlattenOkOrDuplicateId(module) ==
    IF \E i, j \in DOMAIN module.messages :
           i # j /\ module.messages[i].id = module.messages[j].id
    THEN [tag |-> "Err", value |-> "duplicate message id"]
    ELSE [tag |-> "Ok", value |-> module]

Ok(value) == [tag |-> "Ok", value |-> value]

\* The value flatten returns.
FlattenOk(module) == Ok(module)

(***************************************************************************)
(* flatten(files, normalised)                                              *)
(***************************************************************************)
\* files.get(normalised).expect(..) on a path that is no key: the call panics.
FlattenEntryMissing ==
    /\ pc = "start"
    /\ MapGet(files, normalised) = None
    /\ pc' = "panic"
    /\ UNCHANGED <<files, normalised, stack, collector, result, run, first,
                 identVars, sizeVars, typeVars, cliVars>>

\* The entry is found: a fresh collector, and the first call of flatten_recursive.
FlattenBegin ==
    /\ pc = "start"
    /\ IsSome(MapGet(files, normalised))
    /\ \E seed \in Seeds : collector' = DefaultCollector(seed)
    /\ stack' = << Frame(normalised) >>
    /\ pc' = "running"
    /\ UNCHANGED <<files, normalised, result, run, first, identVars, sizeVars, typeVars, cliVars>>

\* `for include in &module.normalised_includes`: the include is a key, and
\* flatten_recursive calls itself on it.
IncludeCall ==
    /\ pc = "running" /\ stack # << >>
    /\ Top.at = "includes" /\ Top.next <= Len(TopFile.normalised_includes)
    /\ LET include == TopFile.normalised_includes[Top.next]
       IN  /\ IsSome(MapGet(files, include))
           /\ Len(stack) < MaxDepth
           /\ stack' = Append(SetTop([Top EXCEPT !.next = @ + 1]), Frame(include))
    /\ UNCHANGED <<files, normalised, pc, collector, result, run, first, identVars, sizeVars, typeVars, cliVars>>

\* The include is no key of the map: expect("bug: the file should already be parsed")
IncludeMissing ==
    /\ pc = "running" /\ stack # << >>
    /\ Top.at = "includes" /\ Top.next <= Len(TopFile.normalised_includes)
    /\ MapGet(files, TopFile.normalised_includes[Top.next]) = None
    /\ pc' = "panic"
    /\ UNCHANGED <<files, normalised, stack, collector, result, run, first,
                 identVars, sizeVars, typeVars, cliVars>>

\* The call would need a frame the stack has no room for: the process aborts.
StackOverflow ==
    /\ pc = "running" /\ stack # << >>
    /\ Top.at = "includes" /\ Top.next <= Len(TopFile.normalised_includes)
    /\ IsSome(MapGet(files, TopFile.normalised_includes[Top.next]))
    /\ Len(stack) >= MaxDepth
    /\ pc' = "overflow"
    /\ UNCHANGED <<files, normalised, stack, collector, result, run, first,
                 identVars, sizeVars, typeVars, cliVars>>

\* The includes are done: the file's own messages, then on to its enums.
OwnMessages ==
    /\ pc = "running" /\ stack # << >>
    /\ Top.at = "includes" /\ Top.next > Len(TopFile.normalised_includes)
    /\ collector' = CollectMessages(collector, TopFile)
    /\ stack' = SetTop([Top EXCEPT !.at = "enums", !.next = 1])
    /\ UNCHANGED <<files, normalised, pc, result, run, first, identVars, sizeVars, typeVars, cliVars>>

\* One enum of the file: merged into the enum of its name, or placed.
OwnEnum ==
    /\ pc = "running" /\ stack # << >>
    /\ Top.at = "enums" /\ Top.next <= Len(EnumsOf(TopFile))
    /\ collector' = CollectEnum(collector, EnumsOf(TopFile)[Top.next])
    /\ stack' = SetTop([Top EXCEPT !.next = @ + 1])
    /\ UNCHANGED <<files, normalised, pc, result, run, first, identVars, sizeVars, typeVars, cliVars>>

\* The end of flatten_recursive: back to the caller.
Return ==
    /\ pc = "running" /\ stack # << >>
    /\ Top.at = "enums" /\ Top.next > Len(EnumsOf(TopFile))
    /\ stack' = Pop
    /\ UNCHANGED <<files, normalised, pc, collector, result, run, first, identVars, sizeVars, typeVars, cliVars>>

\* Back in flatten: Ok(MavlinkModule { .. })
FlattenReturn ==
    /\ pc = "running" /\ stack = << >>
    /\ result' = Some(FlattenOk(MavlinkModule(normalised, files[normalised], collector)))
    /\ pc' = "done"
    /\ UNCHANGED <<files, normalised, stack, collector, run, first, identVars, sizeVars, typeVars, cliVars>>

\* The caller flattens the same entry of the same map once more.
FlattenAgain ==
    /\ pc = "done" /\ run = 1
    /\ first' = Some([seed |-> collector.enum_index.seed, result |-> Unwrap(result)])
    /\ run' = 2
    /\ pc' = "start"
    /\ result' = None
    /\ UNCHANGED <<files, normalised, stack, collector, identVars, sizeVars, typeVars, cliVars>>

InitFlatten ==
    /\ files \in FileMaps
    /\ normalised \in Paths \cup {MissingPath}
    /\ pc = "start"
    /\ stack = << >>
    /\ collector = DefaultCollector("k0")
    /\ result = None
    /\ run = 1
    /\ first = None

IdleIdent == ident_in = << >> /\ ident_out = None
IdleSize == enum_in = << >> /\ size_out = None
IdleType == type_in = << >> /\ type_out = None
CliArgs == [accessible : BOOLEAN, input_is_one_file : BOOLEAN, output_is_file : BOOLEAN]
CliAt(at, next) == [at |-> at, next |-> next]
IdleCli ==
    /\ cli_args = [accessible |-> FALSE, input_is_one_file |-> FALSE, output_is_file |-> FALSE]
    /\ cli_result = None
    /\ cli_pc = CliAt("idle", 0)
    /\ stderr = << >>
    /\ exit = None
    /\ status = None

Init == InitFlatten /\ IdleIdent /\ IdleSize /\ IdleType /\ IdleCli

Next ==
    \/ FlattenEntryMissing
    \/ FlattenBegin
    \/ IncludeCall
    \/ IncludeMissing
    \/ StackOverflow
    \/ OwnMessages
    \/ OwnEnum
    \/ Return
    \/ FlattenReturn
    \/ FlattenAgain

Spec == Init /\ [][Next]_vars

(***************************************************************************)
(* Strings are sequences of characters, a character a one-letter string    *)
(* (or the name of one that cannot be written, as "NBSP").                 *)
(***************************************************************************)
UpperCase == << "A", "B", "C", "D", "E", "F", "G", "H", "I", "J", "K", "L", "M",
                "N", "O", "P", "Q", "R", "S", "T", "U", "V", "W", "X", "Y", "Z" >>
LowerCase == << "a", "b", "c", "d", "e", "f", "g", "h", "i", "j", "k", "l", "m",
                "n", "o", "p", "q", "r", "s", "t", "u", "v", "w", "x", "y", "z" >>

\* char::to_lowercase, on the characters of the model
CharToLowercase(c) ==
    IF \E i \in DOMAIN UpperCase : UpperCase[i] = c
    THEN LowerCase[CHOOSE i \in DOMAIN UpperCase : UpperCase[i] = c]
    ELSE c

\* str::to_lowercase
ToLowercase(s) == [i \in DOMAIN s |-> CharToLowercase(s[i])]

\* char::is_whitespace
IsWhitespace(c) == c \in {" ", "\t", "\n", "\r", "NBSP"}

\* '0'..='9'
IsAsciiDigit(c) == c \in {"0", "1", "2", "3", "4", "5", "6", "7", "8", "9"}

\* slice::contains
Contains(list, x) == \E i \in DOMAIN list : list[i] = x

FORBIDDEN_NAMES ==
    <<
       <<"b", "r", "e", "a", "k">>,
       <<"c", "a", "s", "e">>,
       <<"c", "l", "a", "s", "s">>,
       <<"c", "a", "t", "c", "h">>,
       <<"c", "o", "n", "s", "t">>,
       <<"c", "o", "n", "t", "i", "n", "u", "e">>,
       <<"d", "e", "b", "u", "g", "g", "e", "r">>,
       <<"d", "e", "f", "a", "u", "l", "t">>,
       <<"d", "e", "l", "e", "t", "e">>,
       <<"d", "o">>,
       <<"e", "l", "s", "e">>,
       <<"e", "x", "p", "o", "r", "t">>,
       <<"e", "x", "t", "e", "n", "d", "s">>,
       <<"f", "i", "n", "a", "l", "l", "y">>,
       <<"f", "o", "r">>,
       <<"f", "u", "n", "c", "t", "i", "o", "n">>,
       <<"i", "f">>,
       <<"i", "m", "p", "o", "r", "t">>,
       <<"i", "n">>,
       <<"i", "n", "s", "t", "a", "n", "c", "e", "o", "f">>,
       <<"l", "e", "t">>,
       <<"n", "e", "w">>,
       <<"r", "e", "t", "u", "r", "n">>,
       <<"s", "u", "p", "e", "r">>,
       <<"s", "w", "i", "t", "c", "h">>,
       <<"t", "h", "i", "s">>,
       <<"t", "h", "r", "o", "w">>,
       <<"t", "r", "y">>,
       <<"t", "y", "p", "e", "o", "f">>,
       <<"v", "a", "r">>,
       <<"v", "o", "i", "d">>,
       <<"w", "h", "i", "l", "e">>,
       <<"w", "i", "t", "h">>,
       <<"y", "i", "e", "l", "d">>,
       <<"e", "n", "u", "m">>,
       <<"a", "w", "a", "i", "t">>,
       <<"i", "m", "p", "l", "e", "m", "e", "n", "t", "s">>,
       <<"p", "a", "c", "k", "a", "g", "e">>,
       <<"p", "r", "o", "t", "e", "c", "t", "e", "d">>,
       <<"s", "t", "a", "t", "i", "c">>,
       <<"i", "n", "t", "e", "r", "f", "a", "c", "e">>,
       <<"p", "r", "i", "v", "a", "t", "e">>,
       <<"p", "u", "b", "l", "i", "c">>,
       <<"a", "b", "s", "t", "r", "a", "c", "t">>,
       <<"b", "o", "o", "l", "e", "a", "n">>,
       <<"b", "y", "t", "e">>,
       <<"c", "h", "a", "r">>,
       <<"d", "o", "u", "b", "l", "e">>,
       <<"f", "i", "n", "a", "l">>,
       <<"f", "l", "o", "a", "t">>,
       <<"g", "o", "t", "o">>,
       <<"i", "n", "t">>,
       <<"l", "o", "n", "g">>,
       <<"n", "a", "t", "i", "v", "e">>,
       <<"s", "h", "o", "r", "t">>,
       <<"s", "y", "n", "c", "h", "r", "o", "n", "i", "z", "e", "d">>,
       <<"t", "r", "a", "n", "s", "i", "e", "n", "t">>,
       <<"v", "o", "l", "a", "t", "i", "l", "e">>
    >>

Err(e) == [tag |-> "Err", value |-> e]

\* Faulty variant of Ident, against which C11 is checked: the text is kept in
\* lower case.
IdentLowercased(s) == [text |-> ToLowercase(s)]

\* Ident(String)
Ident(s) == [text |-> s]

\* Faulty variant of IdentFromStr, against which C10 is checked: the reserved
\* words are compared as written.
IdentFromStrCaseSensitive(s) ==
    IF s = << >> \/ s = << "_" >> THEN Err("InvalidIdentError")
    ELSE IF IsAsciiDigit(s[1]) THEN Err("InvalidIdentError")
    ELSE IF \E i \in DOMAIN s : IsWhitespace(s[i]) THEN Err("InvalidIdentError")
    ELSE IF Contains(FORBIDDEN_NAMES, s) THEN Err("InvalidIdentError")
    ELSE Ok(Ident(s))

\* <Ident as FromStr>::from_str
IdentFromStr(s) ==
    IF s = << >> \/ s = << "_" >> THEN Err("InvalidIdentError")
    ELSE IF IsAsciiDigit(s[1]) THEN Err("InvalidIdentError")
    ELSE IF \E i \in DOMAIN s : IsWhitespace(s[i]) THEN Err("InvalidIdentError")
    ELSE IF Contains(FORBIDDEN_NAMES, ToLowercase(s)) THEN Err("InvalidIdentError")
    ELSE Ok(Ident(s))

(***************************************************************************)
(* Enum::min_rust_size                                                     *)
(***************************************************************************)
\* a <= b on u64
U64Le(a, b) ==
    \/ a = b
    \/ \E i \in 1..4 : a[i] < b[i] /\ \A j \in 1..(i - 1) : a[j] = b[j]

\* Iterator::max over the values of the entries: None when there are none, and
\* the last of several equal maxima.
RECURSIVE IterMax(_)
IterMax(values) ==
    IF values = << >> THEN None
    ELSE LET rest == IterMax(Tail(values))
         IN  IF IsSome(rest) /\ U64Le(Head(values), Unwrap(rest)) THEN rest
             ELSE Some(Head(values))

\* Faulty variant of RustSizeOf, against which C9 is checked: the bounds are
\* compared with < where the code has <=.
RustSizeOfBelow(max_value) ==
    IF max_value # U64From(U8Max) /\ U64Le(max_value, U64From(U8Max)) THEN "U8"
    ELSE IF max_value # U64From(U16Max) /\ U64Le(max_value, U64From(U16Max)) THEN "U16"
    ELSE IF max_value # U32MaxAsU64 /\ U64Le(max_value, U32MaxAsU64) THEN "U32"
    ELSE "U64"

\* The match of min_rust_size on the maximum.
RustSizeOf(max_value) ==
    IF U64Le(max_value, U64From(U8Max)) THEN "U8"
    ELSE IF U64Le(max_value, U64From(U16Max)) THEN "U16"
    ELSE IF U64Le(max_value, U32MaxAsU64) THEN "U32"
    ELSE "U64"

\* min_rust_size: its value, or the panic of expect("enums are not empty")
MinRustSize(enum_) ==
    LET max_value == IterMax([i \in DOMAIN enum_.entries |-> enum_.entries[i].value])
    IN  IF IsSome(max_value) THEN RustSizeOf(Unwrap(max_value)) ELSE "panic"

(***************************************************************************)
(* Ident::from_str as a specification of its own: the input is drawn from  *)
(* every string of up to MaxIdentLen characters of IdentAlphabet, the      *)
(* words of FORBIDDEN_NAMES in three spellings, and the strings of         *)
(* tests::test_ident_parse.                                                *)
(***************************************************************************)
MaxIdentLen == 2

IdentAlphabet == {"d", "o", "D", "O", "_", "7", " ", "\t", "x", ":"}

CharToUppercase(c) ==
    IF \E i \in DOMAIN LowerCase : LowerCase[i] = c
    THEN UpperCase[CHOOSE i \in DOMAIN LowerCase : LowerCase[i] = c]
    ELSE c

ToUppercase(s) == [i \in DOMAIN s |-> CharToUppercase(s[i])]
Capitalised(s) == [i \in DOMAIN s |-> IF i = 1 THEN CharToUppercase(s[i]) ELSE s[i]]

TestIdents ==
    { <<"s","o","m","e"," ","s","p","a","c","e">>,
      <<"s","o","m","e","\t","t","a","b">>,
      <<" "," ","I"," ","n","e","e","d"," ">>,
      <<"1","2","3","t","u","r","b","o","f","i","s","h">>,
      <<"9","t","u","r","b","o","f","i","s","h">>,
      <<"0","t","u","r","b","o","f","i","s","h">>,
      <<" ",":",":","<",">"," ">>,
      <<"H","E","L","L","O">>,
      <<"T","H","I","S","_","S","H","O","U","L","D","_","B","E","_","V","A","L","I","D">>,
      <<"A">>,
      <<"d","o","NBSP">>,
      <<"b","r","e","a","k","s">>,
      <<"_","_">> }

IdentInputs ==
    UNION { [1..n -> IdentAlphabet] : n \in 0..MaxIdentLen }
    \cup { FORBIDDEN_NAMES[i] : i \in DOMAIN FORBIDDEN_NAMES }
    \cup { ToUppercase(FORBIDDEN_NAMES[i]) : i \in DOMAIN FORBIDDEN_NAMES }
    \cup { Capitalised(FORBIDDEN_NAMES[i]) : i \in DOMAIN FORBIDDEN_NAMES }
    \cup TestIdents

\* No call of flatten is under way.
IdleFlatten ==
    /\ files = [p \in Paths |-> MavlinkFile(p, << >>)]
    /\ normalised = PathSeq[1]
    /\ pc = "idle"
    /\ stack = << >>
    /\ collector = DefaultCollector("k0")
    /\ result = None
    /\ run = 1
    /\ first = None

InitIdent == IdleFlatten /\ IdleSize /\ IdleType /\ IdleCli /\ ident_in \in IdentInputs /\ ident_out = None

\* s.parse::<Ident>()
IdentParse ==
    /\ ident_out = None
    /\ ident_out' = Some(IdentFromStr(ident_in))
    /\ UNCHANGED <<ident_in, flattenVars, sizeVars, typeVars, cliVars>>

NextIdent == IdentParse

SpecIdent == InitIdent /\ [][NextIdent]_vars

(***************************************************************************)
(* Enum::min_rust_size as a specification of its own: the enum has up to   *)
(* MaxEntries entries, their values drawn from the boundaries of the       *)
(* widths and from values that differ from them in one limb only.          *)
(***************************************************************************)
MaxEntries == 2

SizeValues ==
    { U64From(0), U64From(1), U64From(U8Max), U64From(U8Max + 1), U64From(U16Max),
      <<0, 0, 1, 0>>, <<0, 0, 1, U8Max>>, U32MaxAsU64,
      <<0, 1, 0, 0>>, <<1, 0, 0, 0>>, U64MaxValue }

\* model::Entry and model::Enum
ModelEntry(name, value) ==
    [name |-> name, description |-> None, dev_status |-> None, value |-> value]
ModelEnum(name, bitmask, entries) ==
    [name |-> name, bitmask |-> bitmask, description |-> None, dev_status |-> None,
     entries |-> entries]

SizeInputs ==
    { ModelEnum(Ident(<<"T","E","S","T">>), b,
                [i \in DOMAIN vs |-> ModelEntry(Ident(<<"T","E","S","T","_","1">>), vs[i])]) :
      b \in BOOLEAN, vs \in UNION { [1..n -> SizeValues] : n \in 0..MaxEntries } }

InitSize == IdleFlatten /\ IdleIdent /\ IdleType /\ IdleCli /\ enum_in \in SizeInputs /\ size_out = None

\* enm.min_rust_size()
MinRustSizeCall ==
    /\ size_out = None
    /\ size_out' = Some(MinRustSize(enum_in))
    /\ UNCHANGED <<enum_in, flattenVars, identVars, typeVars, cliVars>>

NextSize == MinRustSizeCall

SpecSize == InitSize /\ [][NextSize]_vars

(***************************************************************************)
(* PrimitiveType::from_str and FieldType::from_str                         *)
(***************************************************************************)
\* The arms of the match of PrimitiveType::from_str: the pattern, the variant.
PrimitiveArms ==
    <<
       << <<"f", "l", "o", "a", "t">>,
          "Float" >>,
       << <<"d", "o", "u", "b", "l", "e">>,
          "Double" >>,
       << <<"c", "h", "a", "r">>,
          "Char" >>,
       << <<"i", "n", "t", "8", "_", "t">>,
          "Int8" >>,
       << <<"u", "i", "n", "t", "8", "_", "t">>,
          "Uint8" >>,
       << <<"u", "i", "n", "t", "8", "_", "t", "_", "m", "a", "v", "l", "i", "n", "k", "_", "v", "e", "r", "s", "i", "o", "n">>,
          "Uint8MavlinkVersion" >>,
       << <<"i", "n", "t", "1", "6", "_", "t">>,
          "Int16" >>,
       << <<"u", "i", "n", "t", "1", "6", "_", "t">>,
          "Uint16" >>,
       << <<"i", "n", "t", "3", "2", "_", "t">>,
          "Int32" >>,
       << <<"u", "i", "n", "t", "3", "2", "_", "t">>,
          "Uint32" >>,
       << <<"i", "n", "t", "6", "4", "_", "t">>,
          "Int64" >>,
       << <<"u", "i", "n", "t", "6", "4", "_", "t">>,
          "Uint64" >>
    >>

\* Faulty variant of PrimitiveTypeFromStr, against which C12 is checked:
\* "uint8_t_mavlink_version" is taken for a plain uint8_t.
PrimitiveTypeFromStrPlainVersion(s) ==
    IF \E i \in DOMAIN PrimitiveArms : PrimitiveArms[i][1] = s
    THEN LET typ == PrimitiveArms[CHOOSE i \in DOMAIN PrimitiveArms : PrimitiveArms[i][1] = s][2]
         IN  Ok(IF typ = "Uint8MavlinkVersion" THEN "Uint8" ELSE typ)
    ELSE Err("InvalidTypeError")

\* <PrimitiveType as FromStr>::from_str
PrimitiveTypeFromStr(s) ==
    IF \E i \in DOMAIN PrimitiveArms : PrimitiveArms[i][1] = s
    THEN Ok(PrimitiveArms[CHOOSE i \in DOMAIN PrimitiveArms : PrimitiveArms[i][1] = s][2])
    ELSE Err("InvalidTypeError")

\* str::strip_suffix of one character
StripSuffix(s, c) ==
    IF s # << >> /\ s[Len(s)] = c THEN Some(SubSeq(s, 1, Len(s) - 1)) ELSE None

\* str::split_once of one character: around its first occurrence
SplitOnce(s, c) ==
    IF \E i \in DOMAIN s : s[i] = c
    THEN LET i == CHOOSE k \in DOMAIN s : s[k] = c /\ \A j \in 1..(k - 1) : s[j] # c
         IN  Some(<< SubSeq(s, 1, i - 1), SubSeq(s, i + 1, Len(s)) >>)
    ELSE None

\* char::to_digit(10)
ToDigit(c) ==
    CASE c = "0" -> Some(0) [] c = "1" -> Some(1) [] c = "2" -> Some(2) [] c = "3" -> Some(3)
      [] c = "4" -> Some(4) [] c = "5" -> Some(5) [] c = "6" -> Some(6) [] c = "7" -> Some(7)
      [] c = "8" -> Some(8) [] c = "9" -> Some(9) [] OTHER -> None

\* The digit loop of u8::from_str over its accumulator `result` (acc here):
\* checked_mul(10) and checked_add(digit), None for a character that is no
\* digit and for a value above u8::MAX.
RECURSIVE ParseDigits(_, _)
ParseDigits(acc, digits) ==
    IF digits = << >> THEN Some(acc)
    ELSE LET x == ToDigit(Head(digits))
         IN  IF ~IsSome(x) THEN None
             ELSE IF acc * 10 + Unwrap(x) > U8Max THEN None
             ELSE ParseDigits(acc * 10 + Unwrap(x), Tail(digits))

\* <u8 as FromStr>::from_str, the parse of size_part: the empty string and a
\* lone sign are errors, one leading "+" is skipped (no "-", u8 is unsigned),
\* and what follows is digits.
U8FromStr(src) ==
    IF src = << >> \/ src = << "+" >> \/ src = << "-" >> THEN Err("ParseIntError")
    ELSE LET digits == IF src[1] = "+" THEN Tail(src) ELSE src
             parsed == ParseDigits(0, digits)
         IN  IF IsSome(parsed) THEN Ok(Unwrap(parsed)) ELSE Err("ParseIntError")

\* FieldType::Primitive and FieldType::Array
Primitive(typ) == [tag |-> "Primitive", typ |-> typ]
Array(typ, size) == [tag |-> "Array", typ |-> typ, size |-> size]

\* Faulty variant of FieldTypeFromStr, against which C14 is checked: an array
\* of no element is an error.
FieldTypeFromStrPositive(s) ==
    LET without_closing_bracket == StripSuffix(s, "]")
    IN  IF IsSome(without_closing_bracket)
        THEN LET parts == SplitOnce(Unwrap(without_closing_bracket), "[")
             IN  IF ~IsSome(parts) THEN Err("InvalidTypeError")
                 ELSE LET typ == PrimitiveTypeFromStr(Unwrap(parts)[1])
                          size == U8FromStr(Unwrap(parts)[2])
                      IN  IF typ.tag = "Err" THEN typ
                          ELSE IF size.tag = "Err" \/ size.value = 0 THEN Err("InvalidTypeError")
                          ELSE Ok(Array(typ.value, size.value))
        ELSE LET typ == PrimitiveTypeFromStr(s)
             IN  IF typ.tag = "Err" THEN typ ELSE Ok(Primitive(typ.value))

\* <FieldType as FromStr>::from_str
FieldTypeFromStr(s) ==
    LET without_closing_bracket == StripSuffix(s, "]")
    IN  IF IsSome(without_closing_bracket)
        THEN LET parts == SplitOnce(Unwrap(without_closing_bracket), "[")
             IN  IF ~IsSome(parts) THEN Err("InvalidTypeError")
                 ELSE LET typ == PrimitiveTypeFromStr(Unwrap(parts)[1])
                          size == U8FromStr(Unwrap(parts)[2])
                      IN  IF typ.tag = "Err" THEN typ
                          ELSE IF size.tag = "Err" THEN Err("InvalidTypeError")
                          ELSE Ok(Array(typ.value, size.value))
        ELSE LET typ == PrimitiveTypeFromStr(s)
             IN  IF typ.tag = "Err" THEN typ ELSE Ok(Primitive(typ.value))

(***************************************************************************)
(* FieldType::from_str as a specification of its own.  The input is a type *)
(* part followed by a tail: the type part is a name of the table or one of *)
(* a few that are not, the tail is empty, or brackets around up to         *)
(* MaxSizeLen characters of SizeAlphabet, or one of the tails of           *)
(* tests::test_field_type_parse and a few more malformed ones.             *)
(***************************************************************************)
MaxSizeLen == 3

SizeAlphabet == {"0", "2", "5", "6", "+", "a", "[", "]"}

TypeParts ==
    { PrimitiveArms[i][1] : i \in DOMAIN PrimitiveArms }
    \cup { <<"c", "h", "a", "r", "_", "t">>,
           <<"n", "o", "t", "_", "f", "o", "u", "n", "d">>,
           <<"I", "N", "T", "8", "_", "T">>,
           << >>,
           <<"F", "l", "o", "a", "t">>,
           <<"u", "i", "n", "t", "8">>,
           <<" ", "f", "l", "o", "a", "t">> }

TypeTails ==
    { << >> }
    \cup { << "[" >> \o c \o << "]" >> : c \in UNION { [1..n -> SizeAlphabet] : n \in 0..MaxSizeLen } }
    \cup { <<"[">>,
           <<"]">>,
           <<"[", "5">>,
           <<"5", "]">>,
           <<"[", "9", "]", "[", "1", "0", "]">>,
           <<"[", "3", "0", "0", "]">>,
           <<"[", "0", "3", "0", "0", "]">>,
           <<"[", "0", "0", "0", "7", "]">>,
           <<"[", "+", "2", "5", "5", "]">>,
           <<"[", "1", "0", "0", "]">>,
           <<"[", "1", "0", "]">>,
           <<"[", "2", "5", "5", "5", "]">>,
           <<"[", "-", "5", "]">>,
           <<"[", "-", "0", "]">>,
           <<"[", " ", "5", "]">>,
           <<"[", "5", " ", "]">>,
           <<"[", "5", "]", " ">> }

TypeInputs == { p \o t : p \in TypeParts, t \in TypeTails }

InitType ==
    IdleFlatten /\ IdleIdent /\ IdleSize /\ IdleCli /\ type_in \in TypeInputs /\ type_out = None

\* FieldType::from_str(input)
FieldTypeParse ==
    /\ type_out = None
    /\ type_out' = Some(FieldTypeFromStr(type_in))
    /\ UNCHANGED <<type_in, flattenVars, identVars, sizeVars, cliVars>>

NextType == FieldTypeParse

SpecType == InitType /\ [][NextType]_vars

(***************************************************************************)
(* The command-line front end: main and print_and_format_mavgen_error.     *)
(* What main learns from the file system and what the library returns are  *)
(* inputs: the three answers of CliArgs, and a result of GenerateResults.  *)
(***************************************************************************)
MaxErrors == 2

\* The variants of mavgen::Error, as the match destructures them.
CreateDir(error, path_buf) == [kind |-> "CreateDir", error |-> error, path |-> path_buf, errors |-> << >>]
ParseXml(errors) == [kind |-> "ParseXml", error |-> "", path |-> "", errors |-> errors]
NormalisePath(error, path_buf) == [kind |-> "NormalisePath", error |-> error, path |-> path_buf, errors |-> << >>]
Flattening(error) == [kind |-> "Flattening", error |-> error, path |-> "", errors |-> << >>]
Normalisation(errors, path_buf) == [kind |-> "Normalisation", error |-> "", path |-> path_buf, errors |-> errors]
InvalidFilename(os_string) == [kind |-> "InvalidFilename", error |-> "", path |-> os_string, errors |-> << >>]
WritingToFile(error, path_buf) == [kind |-> "WritingToFile", error |-> error, path |-> path_buf, errors |-> << >>]

\* The () of Ok(())
Unit == [kind |-> "()", error |-> "", path |-> "", errors |-> << >>]

Diagnostics == {"unexpected end of file", "invalid identifier", "invalid field type"}
ErrorLists == UNION { [1..n -> Diagnostics] : n \in 1..MaxErrors }
IoErrors == {"permission denied"}
CliPaths == {"out/common.rs"}

GenerateResults ==
    { Ok(Unit) }
    \cup { Err(CreateDir(e, p)) : e \in IoErrors, p \in CliPaths }
    \cup { Err(ParseXml(es)) : es \in ErrorLists }
    \cup { Err(NormalisePath(e, p)) : e \in IoErrors, p \in CliPaths }
    \cup { Err(Flattening(e)) : e \in {"invalid module"} }
    \cup { Err(Normalisation(es, p)) : es \in ErrorLists, p \in CliPaths }
    \cup { Err(InvalidFilename(p)) : p \in CliPaths }
    \cup { Err(WritingToFile(e, p)) : e \in IoErrors, p \in CliPaths }

\* anyhow::anyhow!(..): the format string and its arguments
Anyhow(format, arguments) == [format |-> format, arguments |-> arguments]

\* The arms of print_and_format_mavgen_error that print nothing.
FormatMavgenError(error) ==
    CASE error.kind = "CreateDir" ->
           Anyhow("failed to create directory {}: {}", << error.path, error.error >>)
      [] error.kind = "NormalisePath" ->
           Anyhow("failed to normalise path {}: {}", << error.path, error.error >>)
      [] error.kind = "Flattening" ->
           Anyhow("failed to flatten a module: {error}", << error.error >>)
      [] error.kind = "InvalidFilename" ->
           Anyhow("unsupported filename: {:?}", << error.path >>)
      [] error.kind = "WritingToFile" ->
           Anyhow("failed to write to a file {}: {}", << error.path, error.error >>)

\* The first eprintln! of the two arms that print.
Header(error) ==
    IF error.kind = "ParseXml"
    THEN Anyhow("Errors occured during xml parsing:", << >>)
    ELSE Anyhow("Errors occured during model normalisation in {}", << error.path >>)

\* eprintln!("- {error:#}")
DiagnosticLine(error) == Anyhow("- {error:#}", << error >>)

\* What the two arms that print return.
Summary(error) ==
    IF error.kind = "ParseXml"
    THEN Anyhow("failed to parse XML", << >>)
    ELSE Anyhow("failed to normalise mavlink model", << >>)

IsAggregate(error) == error.kind \in {"ParseXml", "Normalisation"}

InitCli ==
    /\ IdleFlatten /\ IdleIdent /\ IdleSize /\ IdleType
    /\ cli_args \in CliArgs
    /\ cli_result = None
    /\ cli_pc = CliAt("main", 0)
    /\ stderr = << >>
    /\ exit = None
    /\ status = None

\* resolve_input(args.input)? fails on a path it cannot access.
MainResolveFails ==
    /\ cli_pc.at = "main"
    /\ ~cli_args.accessible
    /\ exit' = Some(Err(Anyhow("accessing {}", << "input" >>)))
    /\ cli_pc' = CliAt("returned", 0)
    /\ UNCHANGED <<cli_args, cli_result, stderr, status, flattenVars, identVars, sizeVars, typeVars>>

\* anyhow::bail!: several inputs and an output that is a file
MainBail ==
    /\ cli_pc.at = "main"
    /\ cli_args.accessible
    /\ ~cli_args.input_is_one_file
    /\ cli_args.output_is_file
    /\ exit' = Some(Err(Anyhow("for multiple input definitions the output should point to a directory to generate a tree of modules", << >>)))
    /\ cli_pc' = CliAt("returned", 0)
    /\ UNCHANGED <<cli_args, cli_result, stderr, status, flattenVars, identVars, sizeVars, typeVars>>

\* let result = mavgen::generate_one(..) or mavgen::generate_dir(..)
MainGenerate ==
    /\ cli_pc.at = "main"
    /\ cli_args.accessible
    /\ cli_args.input_is_one_file \/ ~cli_args.output_is_file
    /\ \E r \in GenerateResults : cli_result' = Some(r)
    /\ cli_pc' = CliAt("generated", 0)
    /\ UNCHANGED <<cli_args, stderr, exit, status, flattenVars, identVars, sizeVars, typeVars>>

\* The else branch of main: Ok(())
MainOk ==
    /\ cli_pc.at = "generated"
    /\ Unwrap(cli_result).tag = "Ok"
    /\ exit' = Some(Ok(Unit))
    /\ cli_pc' = CliAt("returned", 0)
    /\ UNCHANGED <<cli_args, cli_result, stderr, status, flattenVars, identVars, sizeVars, typeVars>>

\* Err(print_and_format_mavgen_error(err)) for the arms that print nothing
FormatSingle ==
    /\ cli_pc.at = "generated"
    /\ Unwrap(cli_result).tag = "Err"
    /\ ~IsAggregate(Unwrap(cli_result).value)
    /\ exit' = Some(Err(FormatMavgenError(Unwrap(cli_result).value)))
    /\ cli_pc' = CliAt("returned", 0)
    /\ UNCHANGED <<cli_args, cli_result, stderr, status, flattenVars, identVars, sizeVars, typeVars>>

\* The first eprintln! of the ParseXml and Normalisation arms
PrintHeader ==
    /\ cli_pc.at = "generated"
    /\ Unwrap(cli_result).tag = "Err"
    /\ IsAggregate(Unwrap(cli_result).value)
    /\ stderr' = Append(stderr, Header(Unwrap(cli_result).value))
    /\ cli_pc' = CliAt("errors", 1)
    /\ UNCHANGED <<cli_args, cli_result, exit, status, flattenVars, identVars, sizeVars, typeVars>>

\* Faulty variant of PrintDiagnostic, against which C16 is checked: the loop
\* is left after its first turn.
PrintDiagnosticOnce ==
    /\ cli_pc.at = "errors"
    /\ cli_pc.next <= Len(Unwrap(cli_result).value.errors)
    /\ stderr' = Append(stderr, DiagnosticLine(Unwrap(cli_result).value.errors[cli_pc.next]))
    /\ cli_pc' = CliAt("errors", Len(Unwrap(cli_result).value.errors) + 1)
    /\ UNCHANGED <<cli_args, cli_result, exit, status, flattenVars, identVars, sizeVars, typeVars>>

\* One turn of for error in errors { eprintln!("- {error:#}") }
PrintDiagnostic ==
    /\ cli_pc.at = "errors"
    /\ cli_pc.next <= Len(Unwrap(cli_result).value.errors)
    /\ stderr' = Append(stderr, DiagnosticLine(Unwrap(cli_result).value.errors[cli_pc.next]))
    /\ cli_pc' = CliAt("errors", cli_pc.next + 1)
    /\ UNCHANGED <<cli_args, cli_result, exit, status, flattenVars, identVars, sizeVars, typeVars>>

\* The loop is over: the summary is returned, and main returns Err of it.
ReturnSummary ==
    /\ cli_pc.at = "errors"
    /\ cli_pc.next > Len(Unwrap(cli_result).value.errors)
    /\ exit' = Some(Err(Summary(Unwrap(cli_result).value)))
    /\ cli_pc' = CliAt("returned", 0)
    /\ UNCHANGED <<cli_args, cli_result, stderr, status, flattenVars, identVars, sizeVars, typeVars>>

\* main returns anyhow::Result<()>: the runtime reports an Err on standard
\* error and exits with a failure, and exits with success on Ok.
Terminate ==
    /\ cli_pc.at = "returned"
    /\ IF Unwrap(exit).tag = "Err"
       THEN /\ stderr' = Append(stderr, Anyhow("Error: {:?}", << Unwrap(exit).value >>))
            /\ status' = Some(1)
       ELSE /\ stderr' = stderr
            /\ status' = Some(0)
    /\ cli_pc' = CliAt("exited", 0)
    /\ UNCHANGED <<cli_args, cli_result, exit, flattenVars, identVars, sizeVars, typeVars>>

NextCli ==
    \/ MainResolveFails
    \/ MainBail
    \/ MainGenerate
    \/ MainOk
    \/ FormatSingle
    \/ PrintHeader
    \/ PrintDiagnostic
    \/ ReturnSummary
    \/ Terminate

SpecCli == InitCli /\ [][NextCli]_vars

(***************************************************************************)
(* The include graph of the map, for the statements below.                 *)
(***************************************************************************)
IncludesOf(p) == files[p].normalised_includes
IncludeSet(p) == { IncludesOf(p)[i] : i \in DOMAIN IncludesOf(p) }

\* The paths reachable from the paths of `from` (these included).
RECURSIVE ReachableFrom(_)
ReachableFrom(from) ==
    LET more == from \cup UNION { IncludeSet(p) : p \in from \cap Paths }
    IN  IF more = from THEN from ELSE ReachableFrom(more)

Reachable == ReachableFrom({normalised})

\* The entry and every include reachable from it are keys of the map.
Closed == Reachable \subseteq Paths

\* No file reachable from the entry includes itself, directly or through others.
Acyclic == \A p \in Reachable \cap Paths : p \notin ReachableFrom(IncludeSet(p))

\* No file names the same include twice.
NoRepeatedInclude ==
    \A p \in Paths : \A i, j \in DOMAIN IncludesOf(p) :
        IncludesOf(p)[i] = IncludesOf(p)[j] => i = j

\* Some file is reachable from the entry along two different include paths.
SharedDependency ==
    \E p, q \in Reachable \cap Paths, d \in Paths :
        /\ p # q
        /\ d \in IncludeSet(p)
        /\ d \in IncludeSet(q)

MessagesOf(p) ==
    IF IsSome(files[p].mavlink.messages) THEN Unwrap(files[p].mavlink.messages) ELSE << >>

Count(x, seq) == Cardinality({ i \in DOMAIN seq : seq[i] = x })

Returned == pc = "done"
Module == Unwrap(result).value

\* The entries of the enums named `name` in `enums`, one list after the other.
RECURSIVE EntriesNamed(_, _)
EntriesNamed(enums, name) ==
    IF enums = << >> THEN << >>
    ELSE (IF Head(enums).name = name THEN Head(enums).entries ELSE << >>)
         \o EntriesNamed(Tail(enums), name)

(***************************************************************************)
(* C1. Diamond dependency: when a file is reachable from the entry along   *)
(* two different include paths, the module flatten returns holds each      *)
(* message of each reachable file once, and the merged enums hold each     *)
(* entry of each enum of each reachable file once.                         *)
(* The flattener has no visited set: it flattens the shared file once per  *)
(* path, so this statement is violated.                                    *)
(***************************************************************************)
C1_DiamondDeclaredOnce ==
    (Returned /\ NoRepeatedInclude /\ SharedDependency) =>
        \A p \in Reachable :
            /\ \A i \in DOMAIN MessagesOf(p) :
                   Count(MessagesOf(p)[i], Module.messages) = 1
            /\ \A i \in DOMAIN EnumsOf(files[p]) :
                   \A j \in DOMAIN EnumsOf(files[p])[i].entries :
                       Count(EnumsOf(files[p])[i].entries[j],
                             EntriesNamed(Module.enums, EnumsOf(files[p])[i].name)) = 1

(***************************************************************************)
(* C3. Post-order message concatenation: the messages of a flattened file  *)
(* are the flattened messages of its includes, in include order, followed  *)
(* by its own messages; nothing is dropped, reordered or deduplicated.     *)
(* Stated for every activation at every step: the collector holds the      *)
(* flattened messages of the includes each activation on the stack has     *)
(* completed, and the own messages of the innermost one once it is past    *)
(* its includes.                                                           *)
(***************************************************************************)
RECURSIVE PostOrderMessages(_), PostOrderIncludes(_, _)
PostOrderMessages(p) == PostOrderIncludes(p, Len(IncludesOf(p))) \o MessagesOf(p)
PostOrderIncludes(p, n) ==
    IF n = 0 THEN << >>
    ELSE PostOrderIncludes(p, n - 1) \o PostOrderMessages(IncludesOf(p)[n])

\* What the activation at depth k has contributed: below the innermost one the
\* iterator is already past the include being flattened.
ContributionOf(k) ==
    LET frame == stack[k]
    IN  IF k < Len(stack) THEN PostOrderIncludes(frame.module, frame.next - 2)
        ELSE IF frame.at = "includes" THEN PostOrderIncludes(frame.module, frame.next - 1)
        ELSE PostOrderMessages(frame.module)

RECURSIVE ContributionsUpTo(_)
ContributionsUpTo(k) ==
    IF k = 0 THEN << >> ELSE ContributionsUpTo(k - 1) \o ContributionOf(k)

C3_PostOrderMessages ==
    /\ (pc = "running" /\ stack # << >>) => collector.messages = ContributionsUpTo(Len(stack))
    /\ (pc = "running" /\ stack = << >>) => collector.messages = PostOrderMessages(normalised)
    /\ Returned => Module.messages = PostOrderMessages(normalised)

\* Two messages of the same name and id, from two files, are both in the module,
\* after the messages of another include and before the entry's own.
C3_Witness ==
    /\ Returned
    /\ Len(IncludesOf(normalised)) = 2
    /\ \E i, j \in DOMAIN Module.messages :
           /\ i < j
           /\ Module.messages[i] # Module.messages[j]
           /\ Module.messages[i].name = Module.messages[j].name
           /\ Module.messages[i].id = Module.messages[j].id

(***************************************************************************)
(* C4. The module flatten returns has the requested path, and the version  *)
(* and dialect of the entry file, whatever the included files declare.     *)
(***************************************************************************)
C4_EntryTags ==
    Returned =>
        /\ Module.path = normalised
        /\ Module.version = files[normalised].mavlink.version
        /\ Module.dialect = files[normalised].mavlink.dialect

\* The entry declares no version and an include declares one.
C4_Witness ==
    /\ Returned
    /\ files[normalised].mavlink.version = None
    /\ \E p \in Reachable \ {normalised} :
           /\ IsSome(files[p].mavlink.version)
           /\ files[p].mavlink.dialect # files[normalised].mavlink.dialect

(***************************************************************************)
(* C2. Enum merge policy: enums are merged by name.  An enum whose name is *)
(* not placed yet is appended to the enum list; an enum whose name is      *)
(* placed adds no enum and has its entries appended, in order, to the      *)
(* placed enum's.  Placed enums keep their positions.  For a chain A       *)
(* includes B includes C, the entries of a merged enum are C's, then B's,  *)
(* then A's.                                                               *)
(***************************************************************************)
\* The step about to be taken is one iteration of the loop over the enums.
AtEnum ==
    /\ pc = "running" /\ stack # << >>
    /\ Top.at = "enums" /\ Top.next <= Len(EnumsOf(TopFile))

PlacedAt(enums, name) == { k \in DOMAIN enums : enums[k].name = name }

C2_MergeStep ==
    AtEnum =>
        LET enum_ == EnumsOf(TopFile)[Top.next]
            placed == PlacedAt(collector.enums, enum_.name)
        IN  IF placed = {}
            THEN collector'.enums = Append(collector.enums, enum_)
            ELSE \E k \in placed :
                   collector'.enums =
                       [collector.enums EXCEPT ![k].entries = @ \o enum_.entries]

C2_PositionsKept ==
    pc = "running" =>
        /\ Len(collector'.enums) >= Len(collector.enums)
        /\ \A k \in DOMAIN collector.enums :
               collector'.enums[k].name = collector.enums[k].name

\* The entry a includes b only, b includes c only, c includes nothing.
IsChain(a, b, c) ==
    /\ normalised = a /\ a # b /\ b # c /\ a # c
    /\ IncludesOf(a) = << b >> /\ IncludesOf(b) = << c >> /\ IncludesOf(c) = << >>

EnumNames ==
    UNION { { EnumsOf(files[p])[i].name : i \in DOMAIN EnumsOf(files[p]) } : p \in Paths }

C2_Chain ==
    \A a, b, c \in Paths :
        (Returned /\ IsChain(a, b, c)) =>
            \A name \in EnumNames :
                /\ Cardinality(PlacedAt(Module.enums, name)) <= 1
                /\ EntriesNamed(Module.enums, name) =
                       EntriesNamed(EnumsOf(files[c]), name)
                       \o EntriesNamed(EnumsOf(files[b]), name)
                       \o EntriesNamed(EnumsOf(files[a]), name)

C2_EnumMergePolicy == [][C2_MergeStep /\ C2_PositionsKept]_vars /\ []C2_Chain

\* The chain of tests::test_chain has returned, its MAV_CMD holding the entries of
\* test-3.xml, test-2.xml and test-1.xml in that order, placed first.
C2_Witness ==
    /\ Returned
    /\ IsChain("test-1.xml", "test-2.xml", "test-3.xml")
    /\ Module.enums[1].name = "MAV_CMD"
    /\ Len(Module.enums[1].entries) = 5
    /\ Module.enums[1].entries[1].name = "MAV_CMD_RESET_MPPT"
    /\ Module.enums[1].entries[5].name = "MAV_CMD_DO_AUX_FUNCTION"

(***************************************************************************)
(* C5. As claimed: flattening a file that has no includes yields a module  *)
(* whose version, dialect, enums and messages are the file's own,          *)
(* unchanged and in the same order.  Violated by a file that has two enums *)
(* of one name: the second is merged into the first.                       *)
(***************************************************************************)
C5_SingleFileUnchanged ==
    (Returned /\ IncludesOf(normalised) = << >>) =>
        /\ Module.version = files[normalised].mavlink.version
        /\ Module.dialect = files[normalised].mavlink.dialect
        /\ Module.messages = MessagesOf(normalised)
        /\ Module.enums = EnumsOf(files[normalised])

DistinctEnumNames(enums) ==
    \A i, j \in DOMAIN enums : enums[i].name = enums[j].name => i = j

\* The enums of `enums` that are the first of their name, each with the entries
\* of all the enums of that name.
FirstOfName(enums) ==
    LET firsts == { i \in DOMAIN enums : \A j \in 1..(i - 1) : enums[j].name # enums[i].name }
        RECURSIVE Pick(_)
        Pick(i) ==
            IF i > Len(enums) THEN << >>
            ELSE (IF i \in firsts
                  THEN << [enums[i] EXCEPT !.entries = EntriesNamed(enums, enums[i].name)] >>
                  ELSE << >>) \o Pick(i + 1)
    IN  Pick(1)

(***************************************************************************)
(* C5, amended: flattening a file that has no includes yields a module     *)
(* whose version, dialect and messages are the file's own, and whose enums *)
(* are the file's own, unchanged and in the same order, when the names of  *)
(* the file's enums are pairwise distinct; an enum that repeats the name   *)
(* of an earlier enum of the file is not placed, and its entries are       *)
(* appended to the earlier one's.                                          *)
(***************************************************************************)
C5_SingleFileMerged ==
    (Returned /\ IncludesOf(normalised) = << >>) =>
        /\ Module.version = files[normalised].mavlink.version
        /\ Module.dialect = files[normalised].mavlink.dialect
        /\ Module.messages = MessagesOf(normalised)
        /\ DistinctEnumNames(EnumsOf(files[normalised])) =>
               Module.enums = EnumsOf(files[normalised])
        /\ Module.enums = FirstOfName(EnumsOf(files[normalised]))

\* A file without includes, with two enums of different names, has been flattened.
C5_Witness ==
    /\ Returned
    /\ IncludesOf(normalised) = << >>
    /\ DistinctEnumNames(EnumsOf(files[normalised]))
    /\ Len(Module.enums) = 2
    /\ Len(Module.messages) = 2

(***************************************************************************)
(* C6. Determinism: a second call of flatten on the same map and entry     *)
(* returns the module the first call returned, whatever keys the hashers   *)
(* of the two calls' name indexes have.                                    *)
(***************************************************************************)
C6_Deterministic ==
    (Returned /\ run = 2) => Unwrap(result) = Unwrap(first).result

\* Both calls have returned a module of several enums and messages, their name
\* indexes hashing under different keys.
C6_Witness ==
    /\ Returned /\ run = 2
    /\ Unwrap(first).seed # collector.enum_index.seed
    /\ Len(Module.enums) >= 3
    /\ Len(Module.messages) >= 3

(***************************************************************************)
(* C7. flatten terminates on every map closed under includes, also when    *)
(* the include graph has a cycle: the cycle is detected and reported, so   *)
(* the recursion never runs until the call stack is exhausted.             *)
(* The flattener follows an include cycle without end: violated.           *)
(***************************************************************************)
C7_CycleNeverExhaustsStack == Closed => pc # "overflow"

(***************************************************************************)
(* C8. Failure modes: flatten never returns an Err.  On a map that is      *)
(* closed under the includes reachable from the entry and acyclic there,   *)
(* the call neither panics nor overflows and goes on until it has          *)
(* returned Ok.  A panic happens only when the entry or a reachable        *)
(* include is no key of the map, and leaves no returned value.             *)
(***************************************************************************)
C8_FailureModes ==
    /\ IsSome(result) => Unwrap(result).tag = "Ok"
    /\ (Closed /\ Acyclic) =>
           /\ pc \notin {"panic", "overflow"}
           /\ Returned \/ ENABLED Next
           /\ Returned => IsSome(result)
    /\ pc = "panic" => (~Closed /\ result = None)

\* A call on a closed, acyclic map of three files has returned Ok.
C8_Witness ==
    /\ Returned /\ Closed /\ Acyclic
    /\ Reachable = Paths
    /\ Unwrap(result).tag = "Ok"

(***************************************************************************)
(* C9. Enum width boundaries: for a non-empty enum whose largest entry     *)
(* value is m, min_rust_size is U8 iff m <= 255, U16 iff                   *)
(* 256 <= m <= 65535, U32 iff 65536 <= m <= 4294967295 and U64 iff         *)
(* m >= 4294967296: a function of m alone.  In limbs of 16 bits, m is      *)
(* below 2^16 iff its three upper limbs are 0, and below 2^32 iff its two  *)
(* upper limbs are.                                                        *)
(***************************************************************************)
EntryValues == { enum_in.entries[i].value : i \in DOMAIN enum_in.entries }
LargestValue == CHOOSE m \in EntryValues : \A v \in EntryValues : U64Le(v, m)

C9_WidthBoundaries ==
    (IsSome(size_out) /\ enum_in.entries # << >>) =>
        LET m == LargestValue
            size == Unwrap(size_out)
        IN  /\ size \in {"U8", "U16", "U32", "U64"}
            /\ size = "U8" <=> (m[1] = 0 /\ m[2] = 0 /\ m[3] = 0 /\ m[4] <= 255)
            /\ size = "U16" <=> (m[1] = 0 /\ m[2] = 0 /\ m[3] = 0 /\ m[4] >= 256)
            /\ size = "U32" <=> (m[1] = 0 /\ m[2] = 0 /\ m[3] >= 1)
            /\ size = "U64" <=> (m[1] >= 1 \/ m[2] >= 1)

\* The largest value is 4294967295, the first of two entries: U32.
C9_Witness ==
    /\ size_out = Some("U32")
    /\ Len(enum_in.entries) = 2
    /\ enum_in.entries[1].value = U32MaxAsU64
    /\ enum_in.entries[2].value = U64From(U8Max)

(***************************************************************************)
(* C10. Identifier rejection: Ident::from_str fails for the empty string,  *)
(* for "_", for a string whose first character is a digit, for a string    *)
(* with a whitespace character anywhere, and for a string that is a word   *)
(* of FORBIDDEN_NAMES up to the case of its letters.                       *)
(***************************************************************************)
SameLetter(a, b) ==
    \/ a = b
    \/ \E i \in DOMAIN UpperCase : {a, b} = {UpperCase[i], LowerCase[i]}

EqualIgnoringCase(s, w) ==
    /\ Len(s) = Len(w)
    /\ \A i \in DOMAIN s : SameLetter(s[i], w[i])

MustBeRejected(s) ==
    \/ s = << >>
    \/ s = << "_" >>
    \/ (s # << >> /\ s[1] \in {"0", "1", "2", "3", "4", "5", "6", "7", "8", "9"})
    \/ \E i \in DOMAIN s : s[i] \in {" ", "\t", "\n", "\r", "NBSP"}
    \/ \E k \in DOMAIN FORBIDDEN_NAMES : EqualIgnoringCase(s, FORBIDDEN_NAMES[k])

C10_Rejection ==
    (IsSome(ident_out) /\ MustBeRejected(ident_in)) => Unwrap(ident_out).tag = "Err"

\* "Break", a reserved word in another case, has been rejected.
C10_Witness ==
    /\ ident_in = << "B", "r", "e", "a", "k" >>
    /\ IsSome(ident_out)
    /\ Unwrap(ident_out).tag = "Err"

(***************************************************************************)
(* C11. Identifier acceptance and round trip: a string that is not empty,  *)
(* is not "_", does not start with a digit, has no whitespace and is not a *)
(* reserved word in any case is accepted by Ident::from_str, and the text  *)
(* of the Ident (Display, as_ref) is the string as it was written, no      *)
(* letter folded and nothing trimmed; so every Ident that is constructed   *)
(* satisfies the five invariants.                                          *)
(***************************************************************************)
C11_AcceptedAsWritten ==
    IsSome(ident_out) =>
        LET r == Unwrap(ident_out)
        IN  /\ ~MustBeRejected(ident_in) => (r.tag = "Ok" /\ r.value.text = ident_in)
            /\ r.tag = "Ok" => ~MustBeRejected(r.value.text)

\* "HELLO" of tests::test_ident_parse has been accepted as written.
C11_Witness ==
    /\ ident_in = << "H", "E", "L", "L", "O" >>
    /\ IsSome(ident_out)
    /\ Unwrap(ident_out).tag = "Ok"
    /\ Unwrap(ident_out).value.text = << "H", "E", "L", "L", "O" >>

(***************************************************************************)
(* C12. Field-type parsing of valid input: for each of the 12 names of the *)
(* primitive table FieldType::from_str(name) is Primitive of the matching  *)
(* tag, and FieldType::from_str(name + "[n]"), n written in decimal and    *)
(* 0 <= n <= 255, is Array(matching tag, n); the 12 tags are distinct.     *)
(***************************************************************************)
PrimitiveTable ==
    <<
       [name |-> <<"f", "l", "o", "a", "t">>,
        tag |-> "Float"],
       [name |-> <<"d", "o", "u", "b", "l", "e">>,
        tag |-> "Double"],
       [name |-> <<"c", "h", "a", "r">>,
        tag |-> "Char"],
       [name |-> <<"i", "n", "t", "8", "_", "t">>,
        tag |-> "Int8"],
       [name |-> <<"u", "i", "n", "t", "8", "_", "t">>,
        tag |-> "Uint8"],
       [name |-> <<"u", "i", "n", "t", "8", "_", "t", "_", "m", "a", "v", "l", "i", "n", "k", "_", "v", "e", "r", "s", "i", "o", "n">>,
        tag |-> "Uint8MavlinkVersion"],
       [name |-> <<"i", "n", "t", "1", "6", "_", "t">>,
        tag |-> "Int16"],
       [name |-> <<"u", "i", "n", "t", "1", "6", "_", "t">>,
        tag |-> "Uint16"],
       [name |-> <<"i", "n", "t", "3", "2", "_", "t">>,
        tag |-> "Int32"],
       [name |-> <<"u", "i", "n", "t", "3", "2", "_", "t">>,
        tag |-> "Uint32"],
       [name |-> <<"i", "n", "t", "6", "4", "_", "t">>,
        tag |-> "Int64"],
       [name |-> <<"u", "i", "n", "t", "6", "4", "_", "t">>,
        tag |-> "Uint64"]
    >>

DecimalDigits == << "0", "1", "2", "3", "4", "5", "6", "7", "8", "9" >>

\* n as it is written in decimal
RECURSIVE Decimal(_)
Decimal(n) ==
    IF n < 10 THEN << DecimalDigits[n + 1] >>
    ELSE Decimal(n \div 10) \o << DecimalDigits[(n % 10) + 1] >>

IsNumeric(d) == d # << >> /\ \A i \in DOMAIN d : \E x \in DOMAIN DecimalDigits : d[i] = DecimalDigits[x]

\* The number that the digits d write
RECURSIVE DigitsValue(_)
DigitsValue(d) ==
    IF d = << >> THEN 0
    ELSE DigitsValue(SubSeq(d, 1, Len(d) - 1)) * 10
         + (CHOOSE x \in 0..9 : DecimalDigits[x + 1] = d[Len(d)])

\* s is name[n], n written in decimal and 0 <= n <= 255
IsArrayOf(s, name, n) == s = name \o << "[" >> \o Decimal(n) \o << "]" >>

\* What stands between the brackets of s, if s is name[...]
Bracketed(s, name) == SubSeq(s, Len(name) + 2, Len(s) - 1)

C12_ValidParsed ==
    /\ \A j, k \in DOMAIN PrimitiveTable : PrimitiveTable[j].tag = PrimitiveTable[k].tag => j = k
    /\ IsSome(type_out) =>
          \A k \in DOMAIN PrimitiveTable :
              /\ type_in = PrimitiveTable[k].name =>
                    /\ Unwrap(type_out).tag = "Ok"
                    /\ Unwrap(type_out).value.tag = "Primitive"
                    /\ Unwrap(type_out).value.typ = PrimitiveTable[k].tag
              /\ LET d == Bracketed(type_in, PrimitiveTable[k].name)
                 IN  (/\ IsNumeric(d)
                      /\ DigitsValue(d) <= 255
                      /\ IsArrayOf(type_in, PrimitiveTable[k].name, DigitsValue(d))) =>
                         /\ Unwrap(type_out).tag = "Ok"
                         /\ Unwrap(type_out).value.tag = "Array"
                         /\ Unwrap(type_out).value.typ = PrimitiveTable[k].tag
                         /\ Unwrap(type_out).value.size = DigitsValue(d)

\* "uint8_t_mavlink_version[255]" has been parsed: the longest name, the
\* largest length.
C12_Witness ==
    /\ IsArrayOf(type_in, PrimitiveTable[6].name, 255)
    /\ IsSome(type_out)
    /\ Unwrap(type_out).tag = "Ok"
    /\ Unwrap(type_out).value.typ = "Uint8MavlinkVersion"
    /\ Unwrap(type_out).value.size = 255

(***************************************************************************)
(* C13. Field-type parsing of invalid input: FieldType::from_str returns   *)
(* an error for every string whose primitive part is not exactly a name of *)
(* the table, for every string with malformed brackets (a closing bracket  *)
(* without an opening one, an opening one without a closing one, empty or  *)
(* non-numeric bracket content, an empty type part), for nested brackets   *)
(* and for every bracket length above 255.  These are the strings that are *)
(* not a name of the table, alone or followed by one pair of brackets      *)
(* around decimal digits that write a number up to 255.                    *)
(***************************************************************************)
IsTableName(s) == \E k \in DOMAIN PrimitiveTable : s = PrimitiveTable[k].name

WellFormedType(s) ==
    \/ IsTableName(s)
    \/ \E i \in DOMAIN s :
          /\ s[i] = "["
          /\ i < Len(s)
          /\ s[Len(s)] = "]"
          /\ IsTableName(SubSeq(s, 1, i - 1))
          /\ IsNumeric(SubSeq(s, i + 1, Len(s) - 1))
          /\ DigitsValue(SubSeq(s, i + 1, Len(s) - 1)) <= 255

C13_InvalidRejected ==
    (IsSome(type_out) /\ ~WellFormedType(type_in)) => Unwrap(type_out).tag = "Err"

(***************************************************************************)
(* C14. Array length bound, as first stated: every FieldType::Array(p, n)  *)
(* produced by FieldType::from_str has 1 <= n <= 255; a string with        *)
(* bracket length 0 such as "float[0]" is not accepted.                    *)
(***************************************************************************)
C14_PositiveLength ==
    (IsSome(type_out) /\ Unwrap(type_out).tag = "Ok" /\ Unwrap(type_out).value.tag = "Array") =>
        (1 <= Unwrap(type_out).value.size /\ Unwrap(type_out).value.size <= 255)

(***************************************************************************)
(* C14, amended. Every FieldType::Array(p, n) produced by                  *)
(* FieldType::from_str has 0 <= n <= 255, and the length 0 is accepted:    *)
(* name[0], for a name of the table, is Array(matching tag, 0).            *)
(***************************************************************************)
C14_LengthOfU8 ==
    IsSome(type_out) =>
        /\ (Unwrap(type_out).tag = "Ok" /\ Unwrap(type_out).value.tag = "Array") =>
              (0 <= Unwrap(type_out).value.size /\ Unwrap(type_out).value.size <= 255)
        /\ \A k \in DOMAIN PrimitiveTable :
              type_in = PrimitiveTable[k].name \o << "[", "0", "]" >> =>
                  /\ Unwrap(type_out).tag = "Ok"
                  /\ Unwrap(type_out).value.tag = "Array"
                  /\ Unwrap(type_out).value.typ = PrimitiveTable[k].tag
                  /\ Unwrap(type_out).value.size = 0

\* "float[0]" of tests::test_field_type_parse has been parsed to Array(Float, 0).
C14_Witness ==
    /\ type_in = << "f", "l", "o", "a", "t", "[", "0", "]" >>
    /\ IsSome(type_out)
    /\ Unwrap(type_out).tag = "Ok"
    /\ Unwrap(type_out).value.tag = "Array"
    /\ Unwrap(type_out).value.typ = "Float"
    /\ Unwrap(type_out).value.size = 0

(***************************************************************************)
(* C15. Every enum of the module that flatten returns has at least one     *)
(* entry, so that Enum::min_rust_size is defined for it and does not reach *)
(* its expect("enums are not empty"); an enum that has no entry in any     *)
(* file that declares it does not reach the output as an empty enum.       *)
(***************************************************************************)
C15_NoEmptyEnum ==
    Returned =>
        \A k \in DOMAIN Module.enums :
            /\ Module.enums[k].entries # << >>
            /\ MinRustSize(Module.enums[k]) # "panic"

(***************************************************************************)
(* C16. Error reporting order of the command-line front end: for a         *)
(* ParseXml or Normalisation error every diagnostic of the list is         *)
(* printed, in list order, before the one summary failure is returned; for *)
(* CreateDir, NormalisePath, Flattening, InvalidFilename and WritingToFile *)
(* no diagnostic is printed and one descriptive error is returned.  Every  *)
(* error kind ends in a failing exit, none is swallowed.                   *)
(***************************************************************************)
GenerateFailed == IsSome(cli_result) /\ Unwrap(cli_result).tag = "Err"
Failure == Unwrap(cli_result).value

IsDiagnosticLine(line) == line.format = "- {error:#}"

\* The diagnostics on standard error, in the order they were printed
PrintedDiagnostics(lines) ==
    LET ds == SelectSeq(lines, IsDiagnosticLine)
    IN  [i \in DOMAIN ds |-> ds[i].arguments[1]]

C16_Reported ==
    GenerateFailed =>
        /\ IsSome(exit) =>
             /\ Unwrap(exit).tag = "Err"
             /\ Failure.kind \in {"ParseXml", "Normalisation"} =>
                  /\ PrintedDiagnostics(stderr) = Failure.errors
                  /\ Unwrap(exit).value.arguments = << >>
                  /\ Unwrap(exit).value.format =
                        (IF Failure.kind = "ParseXml" THEN "failed to parse XML"
                         ELSE "failed to normalise mavlink model")
             /\ Failure.kind \notin {"ParseXml", "Normalisation"} =>
                  /\ PrintedDiagnostics(stderr) = << >>
                  /\ Len(stderr) = (IF IsSome(status) THEN 1 ELSE 0)
                  /\ Unwrap(exit).value.arguments # << >>
        /\ IsSome(status) => (status = Some(1) /\ IsSome(exit))
        /\ ~IsSome(status) => ENABLED NextCli

C16_PrintedBeforeReturn ==
    (GenerateFailed /\ exit = None /\ exit' # None) =>
        /\ stderr' = stderr
        /\ Failure.kind \in {"ParseXml", "Normalisation"} =>
             PrintedDiagnostics(stderr) = Failure.errors

C16_ReportingOrder == [][C16_PrintedBeforeReturn]_vars /\ []C16_Reported

\* A Normalisation error of two different diagnostics has been reported and
\* the process has exited with a failure.
C16_Witness ==
    /\ GenerateFailed
    /\ Failure.kind = "Normalisation"
    /\ Failure.errors = << "invalid identifier", "invalid field type" >>
    /\ PrintedDiagnostics(stderr) = << "invalid identifier", "invalid field type" >>
    /\ Len(stderr) = 4
    /\ status = Some(1)

(***************************************************************************)
(* C17. Width of a merged enum: the minimum storage width of an enum of    *)
(* the flattened module, computed from its merged entry list, is the       *)
(* largest of the widths of the contributions of the files that declare    *)
(* the name; appending the entries of a later occurrence never decreases   *)
(* the width.  A contribution without entries has no width and counts for  *)
(* nothing.                                                                *)
(***************************************************************************)
\* The order of RustSizeType
WidthRank(size) == CASE size = "U8" -> 1 [] size = "U16" -> 2 [] size = "U32" -> 3 [] size = "U64" -> 4

WidthOf(entries) == MinRustSize([entries |-> entries])

\* What the file p contributes to the enum `name`
FileEntries(p, name) == EntriesNamed(EnumsOf(files[p]), name)

Contributors(name) == { p \in Reachable \cap Paths : FileEntries(p, name) # << >> }

C17_MergedWidth ==
    Returned =>
        \A k \in DOMAIN Module.enums :
            LET name == Module.enums[k].name
                width == WidthOf(Module.enums[k].entries)
            IN  Contributors(name) # {} =>
                    /\ \E p \in Contributors(name) : width = WidthOf(FileEntries(p, name))
                    /\ \A p \in Contributors(name) :
                           WidthRank(WidthOf(FileEntries(p, name))) <= WidthRank(width)

C17_NeverDecreases ==
    AtEnum =>
        \A k \in DOMAIN collector.enums :
            collector.enums[k].entries # << >> =>
                WidthRank(WidthOf(collector'.enums[k].entries))
                    >= WidthRank(WidthOf(collector.enums[k].entries))

IndexConsistent(c) ==
    /\ DOMAIN c.enum_index.table = { c.enums[k].name : k \in DOMAIN c.enums }
    /\ \A name \in DOMAIN c.enum_index.table :
           /\ c.enum_index.table[name] \in DOMAIN c.enums
           /\ c.enums[c.enum_index.table[name]].name = name

C18_DistinctNames ==
    /\ pc \in {"running", "done"} =>
          /\ IndexConsistent(collector)
          /\ \A j, k \in DOMAIN collector.enums :
                 collector.enums[j].name = collector.enums[k].name => j = k
    /\ Returned =>
          \A j, k \in DOMAIN Module.enums :
              Module.enums[j].name = Module.enums[k].name => j = k

\* test-2.xml, which declares MAV_CMD twice, has been flattened on its own: one
\* MAV_CMD in the output, with the entries of both.
C18_Witness ==
    /\ Returned
    /\ normalised = "test-2.xml"
    /\ IncludesOf("test-2.xml") = << >>
    /\ Len(EnumsOf(files["test-2.xml"])) = 2
    /\ EnumsOf(files["test-2.xml"])[1].name = EnumsOf(files["test-2.xml"])[2].name
    /\ Len(Module.enums) = 1
    /\ Len(Module.enums[1].entries) = 2

(***************************************************************************)
(* C19. When an enum name occurs several times, the merged enum keeps the  *)
(* name, bitmask flag, description and dev_status of the first occurrence  *)
(* in traversal order (the deepest, leftmost include); those of every      *)
(* later occurrence, the entry file's own included, are discarded and only *)
(* its entries are used.                                                   *)
(***************************************************************************)
\* The enum declarations in the order the traversal meets them: those of the
\* includes, in include order, then the file's own.
RECURSIVE PostOrderEnums(_), PostOrderEnumsOfIncludes(_, _)
PostOrderEnums(p) == PostOrderEnumsOfIncludes(p, Len(IncludesOf(p))) \o EnumsOf(files[p])
PostOrderEnumsOfIncludes(p, n) ==
    IF n = 0 THEN << >>
    ELSE PostOrderEnumsOfIncludes(p, n - 1) \o PostOrderEnums(IncludesOf(p)[n])

FirstNamed(enums, name) ==
    enums[CHOOSE i \in DOMAIN enums :
            enums[i].name = name /\ \A j \in 1..(i - 1) : enums[j].name # name]

SameFlags(a, b) ==
    /\ a.name = b.name
    /\ a.bitmask = b.bitmask
    /\ a.description = b.description
    /\ a.dev_status = b.dev_status

C19_FirstOccurrence ==
    Returned =>
        \A k \in DOMAIN Module.enums :
            SameFlags(Module.enums[k],
                      FirstNamed(PostOrderEnums(normalised), Module.enums[k].name))

C19_FlagsKept ==
    pc = "running" =>
        \A k \in DOMAIN collector.enums : SameFlags(collector'.enums[k], collector.enums[k])

C19_FirstOccurrenceKept == [][C19_FlagsKept]_vars /\ []C19_FirstOccurrence

\* test-1.xml includes test-3.xml: MAV_CMD has the flags of test-3.xml, which
\* differ in bitmask, description and dev_status from those of the entry file.
C19_Witness ==
    /\ Returned
    /\ normalised = "test-1.xml"
    /\ IncludesOf("test-1.xml") = << "test-3.xml" >>
    /\ IncludesOf("test-3.xml") = << >>
    /\ Module.enums[1].name = "MAV_CMD"
    /\ Module.enums[1].bitmask = Some(FALSE)
    /\ Module.enums[1].description = None
    /\ Module.enums[1].dev_status = Some("wip")
    /\ FirstNamed(EnumsOf(files["test-1.xml"]), "MAV_CMD").bitmask = None
    /\ FirstNamed(EnumsOf(files["test-1.xml"]), "MAV_CMD").description = Some("from test-1")
    /\ FirstNamed(EnumsOf(files["test-1.xml"]), "MAV_CMD").dev_status = None
    /\ Len(Module.enums[1].entries) = 3

(***************************************************************************)
(* C20. Entry conservation in flatten: for an acyclic include graph in     *)
(* which every file is reachable along exactly one path, the number of     *)
(* enum entries over all enums of the output is the number of enum entries *)
(* declared in all reachable files; the merge drops no entry, removes no   *)
(* entry whose name or value another one has, and within a merged enum     *)
(* keeps the order of the entries of each declaration.                     *)
(***************************************************************************)
\* How often the reachable files name d as an include
RECURSIVE TimesIncluded(_, _)
TimesIncluded(d, ps) ==
    IF ps = {} THEN 0
    ELSE LET p == CHOOSE q \in ps : TRUE
         IN  Count(d, IncludesOf(p)) + TimesIncluded(d, ps \ {p})

\* Every reachable file is reachable along exactly one include path.
TreeShaped ==
    /\ Closed
    /\ Acyclic
    /\ \A d \in Reachable \ {normalised} : TimesIncluded(d, Reachable) = 1

RECURSIVE TotalEntries(_)
TotalEntries(enums) ==
    IF enums = << >> THEN 0 ELSE Len(Head(enums).entries) + TotalEntries(Tail(enums))

RECURSIVE DeclaredEntries(_)
DeclaredEntries(ps) ==
    IF ps = {} THEN 0
    ELSE LET p == CHOOSE q \in ps : TRUE
         IN  TotalEntries(EnumsOf(files[p])) + DeclaredEntries(ps \ {p})

C20_Conserved ==
    (Returned /\ TreeShaped) =>
        /\ TotalEntries(Module.enums) = DeclaredEntries(Reachable)
        /\ \A name \in EnumNames :
               EntriesNamed(Module.enums, name) = EntriesNamed(PostOrderEnums(normalised), name)

C20_StepAdds ==
    AtEnum =>
        TotalEntries(collector'.enums) =
            TotalEntries(collector.enums) + Len(EnumsOf(TopFile)[Top.next].entries)

C20_EntryConservation == [][C20_StepAdds]_vars /\ []C20_Conserved

\* test-2.xml includes test-3.xml: the four entries of the three MAV_CMD
\* declarations are all in the one merged enum, two of them of one value and
\* two of one name.
C20_Witness ==
    /\ Returned
    /\ TreeShaped
    /\ normalised = "test-2.xml"
    /\ IncludesOf("test-2.xml") = << "test-3.xml" >>
    /\ TotalEntries(Module.enums) = 4
    /\ Len(Module.enums[1].entries) = 4
    /\ Module.enums[1].entries[1].value = Module.enums[1].entries[3].value
    /\ Module.enums[1].entries[1].name # Module.enums[1].entries[3].name
    /\ Module.enums[1].entries[2].name = Module.enums[1].entries[4].name
    /\ Module.enums[1].entries[2].value # Module.enums[1].entries[4].value
====
